---- MODULE Spec2Model ----
(***************************************************************************)
(* Branch lifecycle of argon (src/core/branch_manager.py) over its three   *)
(* collaborators: the metadata catalog (branches / branch_versions), the   *)
(* S3 snapshot store (src/core/s3_utils.py) and the Docker provisioner     *)
(* (src/core/docker_utils.py).                                             *)
(*                                                                         *)
(* Every handler is translated statement group by statement group: a      *)
(* process (a CLI/dashboard request worker, or the auto-suspend thread)    *)
(* has a position pc, the arguments op/key of the call it is in, the       *)
(* handler's local variables loc and the value it returned, result.  One   *)
(* step of a handler is one access to a shared resource (one catalog       *)
(* read or write, one store call, one Docker call), which is the grain at  *)
(* which two handlers of the code can interleave: the code takes no lock.  *)
(***************************************************************************)
EXTENDS Integers, Sequences, FiniteSets, TLC

VARIABLES
    branches,     \* catalog table branches: key -> row or NoBranch
    versions,     \* catalog table branch_versions: rows in insertion order
    store,        \* S3 bucket: s3 path -> object versions, oldest first
    versioning,   \* S3 bucket: whether its versioning is enabled
    containers,   \* Docker: container id -> container, for existing containers
    now,          \* the clock read by datetime.utcnow()
    pc,           \* per process: position in its handler
    op,           \* per process: the handler it runs / last ran
    key,          \* per process: (project_name, branch_name) argument
    loc,          \* per process: the handler's local variables
    result,       \* per process: what the last finished handler returned
    prev,         \* per process: op, key, result of the call before this one
    scan,         \* auto_suspend_loop's locals: now, projects and rows left
    served,       \* requests accepted so far, where a specification counts them
    tt,           \* the last time-travel request: its arguments and the
                  \* version it resolved, until a result is acknowledged
    put           \* the last call of a bucket function made on its own:
                  \* its arguments, what the bucket did and what it returned

catalogVars == <<branches, versions>>
procVars    == <<pc, op, key, loc, result, prev>>
vars == <<branches, versions, store, versioning, containers, now, pc, op, key,
          loc, result, prev, scan, served, tt, put>>

---------------------------------------------------------------------------
(* Bounds of the model *)

\* object versions the bucket may hold in total besides the base archive
MaxVersions == 2
\* containers Docker may hold at one time (ids are reused once unreferenced)
MaxContainers == 3
\* last value of the clock
MaxTime == 1
\* requests accepted in the specifications that count them
MaxRequests == 4
\* requests accepted alongside the auto-suspend thread
MaxScanRequests == 3

\* random.randint(30000, 40000): the low end; the model draws from two ports
PortLo == 30000
Ports == {PortLo, PortLo + 1}

\* the (project, branch) pairs requests are issued for
Keys == {<<"p1", "b1">>, <<"p1", "b2">>, <<"p2", "b1">>}
\* the branches of the first project
ProjectKeys == {<<"p1", "b1">>, <<"p1", "b2">>}
\* two branches of the same name in different projects
SameName == {<<"p1", "b1">>, <<"p2", "b1">>}
\* rows of get_all_branches come back in table order
KeyOrder == <<(<<"p1", "b1">>), (<<"p1", "b2">>), (<<"p2", "b1">>)>>

Workers == {"w1", "w2"}
Scanner == "scanner"
Procs == Workers \cup {Scanner}

\* database contents a client can have committed; Empty is a fresh mongod
Data == {"d0", "d1"}
Written == {"d1"}
Empty == "empty"
NoFile == "nofile"

CIds == 1..MaxContainers
NoCid == 0
NoVid == 0
NoBranch == [status |-> "absent"]
NoKey == <<"-", "-">>

\* DASHBOARD_AUTO_SUSPEND_IDLE_MINUTES as configured for the model
IdleMinutes == 0

\* the clock counts microseconds, the precision of utcnow().isoformat();
\* the dashboard formats a requested time with '%f' cut by [:-3]
UsPerMs == 1000

\* requests accepted in the time-travel specification
MaxTTRequests == 5

\* requests accepted between the passes of the auto-suspend thread
MaxPassRequests == 3

\* the times a time-travel request can name
Times == 0..MaxTime

\* what the bucket holds in place of an archive whose transfer was cut
\* short, and the delete marker a versioned bucket puts on a deleted key
Truncated == "cut"
DeleteMarker == "marker"

\* no bucket function called on its own yet
NoPut == [fn |-> "none", path |-> <<>>, file |-> NoFile, reach |-> TRUE,
          kept |-> NoFile, ret |-> NoVid, ok |-> FALSE, row |-> FALSE]

\* requests accepted in the specification of the bucket functions
MaxStoreRequests == 4

\* requests accepted in the specification of create's sources
MaxCreateRequests == 5

\* no time-travel request made yet
NoTT == [ui |-> "none", from |-> NoKey, t |-> 0, ts |-> 0, v |-> 0, nver |-> 0]

---------------------------------------------------------------------------
(* Pure helpers *)

ProjectOf(k) == k[1]
BranchOf(k) == k[2]

\* s3_path = f"branches/{project_name}/{branch_name}/dump.archive"
S3Path(k) == <<"branches", ProjectOf(k), BranchOf(k), "dump.archive">>
BasePath == <<"base", "dump.archive">>
Paths == {S3Path(k) : k \in Keys} \cup {BasePath}

\* name=f'argon-{branch_name}': the project is not part of the name
ContainerName(k) == <<"argon", BranchOf(k)>>

\* a handler's locals.  seen and nver are not locals of the code: they
\* record, for stating properties, what the call found when it was made:
\* the data of the branch's running instance (suspend, delete) or the
\* archive it downloaded (create, resume), and the number of version rows
LocInit == [port |-> 0, cid |-> NoCid, s3 |-> <<>>, dump |-> NoFile,
            seen |-> NoFile, nver |-> 0]
PrevInit == [op |-> "none", key |-> NoKey, result |-> "none", seen |-> NoFile]

\* every object version currently in the bucket
AllObjects == UNION {{store[p][i] : i \in DOMAIN store[p]} : p \in Paths}
StoredCount == Cardinality(AllObjects) - 1

\* ids Docker can hand out: those of no existing container that no catalog
\* row and no handler local still refers to (ids are opaque and unique)
ReferencedCids ==
    {branches[k].container_id : k \in {x \in Keys : branches[x] # NoBranch}}
        \cup {loc[p].cid : p \in Procs}
FreeCids == CIds \ (DOMAIN containers \cup ReferencedCids)
FreshCid == CHOOSE c \in FreeCids : \A d \in FreeCids : c <= d

\* version ids are never reused: the next one is past every one in use
FreshVid ==
    1 + (CHOOSE m \in {o.vid : o \in AllObjects} :
           \A o \in AllObjects : o.vid <= m)

Live(c) == c \in DOMAIN containers /\ containers[c].live

---------------------------------------------------------------------------
(* The collaborators.  Each call is an operator giving the set of outcomes *)
(* the call can have: the post-state of what it touches and whether it     *)
(* raised.                                                                 *)

\* download_from_s3(s3_path, local_path): the latest version's bytes, or an
\* exception (no such key, bucket unreachable), written NoFile
download_from_s3(path) ==
    {NoFile} \cup (IF Len(store[path]) > 0
                    THEN {store[path][Len(store[path])].content} \ {DeleteMarker}
                    ELSE {})

\* download_from_s3_versioned(s3_path, local_path, version_id)
download_from_s3_versioned(path, vid) ==
    {NoFile} \cup {store[path][i].content :
                     i \in {j \in DOMAIN store[path] : store[path][j].vid = vid}}

\* the objects of a key without those that have no version id
Versioned(objs) == SelectSeq(objs, LAMBDA o : o.vid # NoVid)

\* upload_to_s3(local_path, s3_path): put_object raises and stores
\* nothing, or stores a new version and returns its VersionId, or, when
\* the bucket's versioning is not enabled, stores the object in place of
\* the key's unversioned one and the response has no VersionId:
\* resp.get('VersionId') is None and is returned as it is (lines 28-30)
upload_to_s3(content, path) ==
    {[raised |-> TRUE, vid |-> NoVid, store |-> store]} \cup
    (IF StoredCount < MaxVersions /\ Len(versions) < MaxVersions
       THEN IF versioning
              THEN {[raised |-> FALSE, vid |-> FreshVid,
                     store |-> [store EXCEPT ![path] =
                                  Append(@, [vid |-> FreshVid,
                                             content |-> content])]]}
              ELSE {[raised |-> FALSE, vid |-> NoVid,
                     store |-> [store EXCEPT ![path] =
                                  Append(Versioned(@),
                                         [vid |-> NoVid, content |-> content])]]}
       ELSE {})

NameInUse(name) == \E c \in DOMAIN containers : containers[c].name = name
PortInUse(port) == \E c \in DOMAIN containers :
                      containers[c].live /\ containers[c].port = port

\* start_mongo_container(branch_name, dump_path, port).  Outcomes:
\*  - the Docker socket is unreachable or containers.run fails: raises;
\*  - a container of that name exists: the daemon refuses the name, raises;
\*  - the host port is bound by a running container: the container is
\*    created but cannot start, raises, and the created container stays;
\*  - the container runs; docker cp and mongorestore are run without their
\*    results being acted on (lines 31-39), so the instance holds the
\*    archive's data, or nothing when the copy or the restore failed.
start_mongo_container(name, dump, port) ==
    {[raised |-> TRUE, cid |-> NoCid, containers |-> containers]} \cup
    (IF NameInUse(name) \/ FreeCids = {} THEN {}
     ELSE IF PortInUse(port)
       THEN {[raised |-> TRUE, cid |-> NoCid,
              containers |-> (FreshCid :> [name |-> name, port |-> port,
                     live |-> FALSE, data |-> Empty, dumpfile |-> NoFile])
                     @@ containers]}
       ELSE {[raised |-> FALSE, cid |-> FreshCid,
              containers |-> (FreshCid :> [name |-> name, port |-> port,
                     live |-> TRUE, data |-> d[1], dumpfile |-> d[2]])
                     @@ containers] :
                d \in {<<dump, dump>>, <<Empty, dump>>, <<Empty, NoFile>>}})

\* stop_mongo_container(container_id): raises when Docker is unreachable;
\* otherwise stop() and remove(), any exception of which is swallowed
\* (lines 55-60): the container is gone, or stopped but not removed, or
\* untouched
stop_mongo_container(cid) ==
    {[raised |-> TRUE, containers |-> containers]} \cup
    {[raised |-> FALSE, containers |-> containers]} \cup
    (IF cid \in DOMAIN containers
       THEN {[raised |-> FALSE,
              containers |-> [c \in DOMAIN containers \ {cid} |-> containers[c]]],
             [raised |-> FALSE,
              containers |-> [containers EXCEPT ![cid].live = FALSE,
                                               ![cid].data = Empty]]}
       ELSE {})

\* client.containers.get(container_id).status == 'running' with its
\* except Exception (branch_manager.py lines 150-155): "unreachable" when
\* the client cannot be built (re-raised at line 149), else whether the
\* container is running; any exception of the lookup reads as not running
container_is_running(cid) ==
    {"unreachable", "no"} \cup (IF Live(cid) THEN {"yes"} ELSE {})

\* add_branch_version(branch, project, s3_path, version_id, timestamp):
\* appends a row, or raises (written by leaving the table as it is)
add_branch_version(k, path, vid, ts) ==
    Append(versions, [key |-> k, s3_path |-> path, version_id |-> vid,
                      timestamp |-> ts])

\* snapshot_branch_to_s3(branch_name, project_name, container_id, s3_path):
\* mongodump into the container's /dump.archive (a failure is only logged),
\* docker cp of that file to a temporary file (unchecked), and, when the
\* temporary file exists and is not empty, upload_to_s3 and
\* add_branch_version; either of which raising leaves the function.
snapshot_branch_to_s3(k, cid, path) ==
    LET dumped == IF Live(cid)
                    THEN {[containers EXCEPT ![cid].dumpfile = containers[cid].data]}
                    ELSE {}
        conts == {containers} \cup dumped
        file(cs) == {NoFile} \cup
                    (IF cid \in DOMAIN cs THEN {cs[cid].dumpfile} ELSE {})
    IN UNION {UNION {
         IF f = NoFile
           THEN {[raised |-> FALSE, containers |-> cs, store |-> store,
                  versions |-> versions]}
           ELSE UNION {
             IF u.raised
               THEN {[raised |-> TRUE, containers |-> cs, store |-> store,
                      versions |-> versions]}
               ELSE {[raised |-> TRUE, containers |-> cs, store |-> u.store,
                      versions |-> versions],
                     [raised |-> FALSE, containers |-> cs, store |-> u.store,
                      versions |-> add_branch_version(k, path, u.vid, now)]}
             : u \in upload_to_s3(f, path)}
         : f \in file(cs)} : cs \in conts}

---------------------------------------------------------------------------
(* Calls and returns *)

Init ==
    /\ branches = [k \in Keys |-> NoBranch]
    /\ versions = <<>>
    /\ versioning \in BOOLEAN
    /\ store = [p \in Paths |->
                  IF p = BasePath
                    THEN <<[vid |-> IF versioning THEN 1 ELSE NoVid,
                            content |-> "d0"]>>
                    ELSE <<>>]
    /\ containers = <<>>
    /\ now = 0
    /\ pc = [p \in Procs |-> IF p = Scanner THEN "sc_sleep" ELSE "idle"]
    /\ op = [p \in Procs |-> "none"]
    /\ key = [p \in Procs |-> NoKey]
    /\ loc = [p \in Procs |-> LocInit]
    /\ result = [p \in Procs |-> "none"]
    /\ prev = [p \in Procs |-> PrevInit]
    /\ scan = [now |-> 0, projects |-> <<>>, rows |-> <<>>]
    /\ served = 0
    /\ tt = NoTT
    /\ put = NoPut

\* where a process is when its handler has returned
Home(p) == IF p = Scanner THEN "sc_item" ELSE "done"

\* process p calls handler o for key k; prev remembers the call p made
\* just before, when p makes this one straight after it
Call(p, o, k) ==
    /\ op' = [op EXCEPT ![p] = o]
    /\ key' = [key EXCEPT ![p] = k]
    /\ prev' = [prev EXCEPT ![p] =
                  IF pc[p] = "done"
                    THEN [op |-> op[p], key |-> key[p], result |-> result[p],
                          seen |-> loc[p].seen]
                    ELSE PrevInit]

\* the handler p is in returns r (or, for "raised", lets an exception out);
\* the temporary directory is gone, and a worker's other locals stay
\* readable until the returned value is consumed
Return(p, r) ==
    /\ pc' = [pc EXCEPT ![p] = Home(p)]
    /\ result' = [result EXCEPT ![p] = r]
    /\ loc' = [loc EXCEPT ![p] = IF p = Scanner THEN LocInit
                                 ELSE [@ EXCEPT !.dump = NoFile]]

\* the handler p has just been called with returns r before it set a local
ReturnAtOnce(p, r) ==
    /\ pc' = [pc EXCEPT ![p] = Home(p)]
    /\ result' = [result EXCEPT ![p] = r]
    /\ loc' = [loc EXCEPT ![p] = LocInit]

\* the data of the running instance of branch k, NoFile when it has none
DataOf(k) ==
    IF branches[k] # NoBranch /\ Live(branches[k].container_id)
      THEN containers[branches[k].container_id].data ELSE NoFile

\* the handler p is in moves on to position q with locals l
Goto(p, q, l) ==
    /\ pc' = [pc EXCEPT ![p] = q]
    /\ loc' = [loc EXCEPT ![p] = l]
    /\ result' = [result EXCEPT ![p] = "none"]

InCall == UNCHANGED <<op, key, prev>>

\* a worker that can take a new request: it is idle, or it makes a second
\* call straight after a first one that succeeded (prev then remembers the
\* first; longer runs of calls go through Ack, which forgets)
Ready(p) ==
    /\ p \in Workers
    /\ \/ pc[p] = "idle"
       \/ pc[p] = "done" /\ result[p] = "ok" /\ prev[p] = PrevInit

\* the caller has consumed the returned value (the CLI printed it, the
\* dashboard redirected): the worker is idle again
Ack(p) ==
    /\ pc[p] = "done"
    /\ pc' = [pc EXCEPT ![p] = "idle"]
    /\ op' = [op EXCEPT ![p] = "none"]
    /\ key' = [key EXCEPT ![p] = NoKey]
    /\ result' = [result EXCEPT ![p] = "none"]
    /\ prev' = [prev EXCEPT ![p] = PrevInit]
    /\ loc' = [loc EXCEPT ![p] = LocInit]
    /\ UNCHANGED <<branches, versions, store, containers, now, scan>>

---------------------------------------------------------------------------
(* resume_branch(branch_name, project_name) *)

\* resume_branch without its "already running" return (line 171-172)
ResumeReadNoRunningCheck(p, k) ==
    /\ Call(p, "resume", k)
    /\ UNCHANGED <<branches, versions, store, containers, now, scan>>
    /\ IF branches[k] = NoBranch THEN ReturnAtOnce(p, "not_found")
       ELSE Goto(p, "r_download",
                 [LocInit EXCEPT !.port = branches[k].port,
                                 !.s3 = branches[k].s3_path,
                                 !.nver = Len(versions)])

\* resume_branch going on to the download for a branch that has no row
ResumeReadNoFoundCheck(p, k) ==
    /\ Call(p, "resume", k)
    /\ UNCHANGED <<branches, versions, store, containers, now, scan>>
    /\ IF branches[k] # NoBranch /\ branches[k].status = "running"
         THEN ReturnAtOnce(p, "already_running")
       ELSE Goto(p, "r_download",
                 [LocInit EXCEPT !.port = IF branches[k] = NoBranch THEN PortLo
                                          ELSE branches[k].port,
                                 !.s3 = S3Path(k),
                                 !.nver = Len(versions)])

\* lines 168-174: get_branch and the two early returns
ResumeRead(p, k) ==
    /\ Call(p, "resume", k)
    /\ UNCHANGED <<branches, versions, store, containers, now, scan>>
    /\ IF branches[k] = NoBranch THEN ReturnAtOnce(p, "not_found")
       ELSE IF branches[k].status = "running"
         THEN ReturnAtOnce(p, "already_running")
       ELSE Goto(p, "r_download",
                 [LocInit EXCEPT !.port = branches[k].port,
                                 !.s3 = branches[k].s3_path,
                                 !.nver = Len(versions)])

\* line 180: download_from_s3(s3_path, dump_path), inside the try
ResumeDownload(p) ==
    /\ pc[p] = "r_download"
    /\ InCall
    /\ UNCHANGED <<branches, versions, store, containers, now, scan>>
    /\ \E f \in download_from_s3(loc[p].s3) :
         IF f = NoFile THEN Return(p, "failed")
         ELSE Goto(p, "r_start", [loc[p] EXCEPT !.dump = f, !.seen = f])

\* line 181: start_mongo_container(branch_name, dump_path, port)
ResumeStart(p) ==
    /\ pc[p] = "r_start"
    /\ InCall
    /\ UNCHANGED <<branches, versions, store, now, scan>>
    /\ \E o \in start_mongo_container(ContainerName(key[p]), loc[p].dump, loc[p].port) :
         /\ containers' = o.containers
         /\ IF o.raised THEN Return(p, "failed")
            ELSE Goto(p, "r_update", [loc[p] EXCEPT !.cid = o.cid])

\* the UPDATE of resume_branch writing a newly drawn port as well
ResumeUpdateNewPort(p) ==
    /\ pc[p] = "r_update"
    /\ InCall
    /\ UNCHANGED <<versions, store, containers, now, scan>>
    /\ branches' = IF branches[key[p]] = NoBranch THEN branches
                   ELSE [branches EXCEPT ![key[p]] =
                           [@ EXCEPT !.container_id = loc[p].cid,
                                     !.port = PortLo + 1 - (@ - PortLo),
                                     !.status = "running",
                                     !.last_active = now]]
    /\ Return(p, "ok")

\* lines 183-191: UPDATE branches SET container_id, status, last_active
\* WHERE branch_name = ? AND project_name = ?; a missing row updates nothing
ResumeUpdate(p) ==
    /\ pc[p] = "r_update"
    /\ InCall
    /\ UNCHANGED <<versions, store, containers, now, scan>>
    /\ branches' = IF branches[key[p]] = NoBranch THEN branches
                   ELSE [branches EXCEPT ![key[p]] =
                           [@ EXCEPT !.container_id = loc[p].cid,
                                     !.status = "running",
                                     !.last_active = now]]
    /\ Return(p, "ok")

---------------------------------------------------------------------------
(* suspend_branch(branch_name, project_name) *)

\* suspend_branch testing only "not branch" at line 131
SuspendReadAbsentOnly(p, k) ==
    /\ Call(p, "suspend", k)
    /\ UNCHANGED <<branches, versions, store, containers, now>>
    /\ IF branches[k] = NoBranch
         THEN ReturnAtOnce(p, "not_running")
         ELSE Goto(p, "s_check",
                   [LocInit EXCEPT !.cid = branches[k].container_id,
                                   !.s3 = branches[k].s3_path,
                                   !.seen = DataOf(k),
                                   !.nver = Len(versions)])

\* lines 130-135: get_branch and the early return
SuspendRead(p, k) ==
    /\ Call(p, "suspend", k)
    /\ UNCHANGED <<branches, versions, store, containers, now>>
    /\ IF branches[k] = NoBranch \/ branches[k].status = "stopped"
         THEN ReturnAtOnce(p, "not_running")
         ELSE Goto(p, "s_check",
                   [LocInit EXCEPT !.cid = branches[k].container_id,
                                   !.s3 = branches[k].s3_path,
                                   !.seen = DataOf(k),
                                   !.nver = Len(versions)])

\* lines 137-155: connect to Docker, is the container running
SuspendCheck(p) ==
    /\ pc[p] = "s_check"
    /\ InCall
    /\ UNCHANGED <<branches, versions, store, containers, now, scan>>
    /\ \E r \in container_is_running(loc[p].cid) :
         IF r = "unreachable" THEN Return(p, "raised")
         ELSE IF r = "yes"
           THEN Goto(p, "s_snapshot", loc[p])
           ELSE Goto(p, "s_update", loc[p])

\* line 157: snapshot_branch_to_s3(...)
SuspendSnapshot(p) ==
    /\ pc[p] = "s_snapshot"
    /\ InCall
    /\ UNCHANGED <<branches, now, scan>>
    /\ \E o \in snapshot_branch_to_s3(key[p], loc[p].cid, loc[p].s3) :
         /\ containers' = o.containers
         /\ store' = o.store
         /\ versions' = o.versions
         /\ IF o.raised THEN Return(p, "raised")
            ELSE Goto(p, "s_stop", loc[p])

\* line 158: stop_mongo_container(container_id)
SuspendStop(p) ==
    /\ pc[p] = "s_stop"
    /\ InCall
    /\ UNCHANGED <<branches, versions, store, now, scan>>
    /\ \E o \in stop_mongo_container(loc[p].cid) :
         /\ containers' = o.containers
         /\ IF o.raised THEN Return(p, "raised")
            ELSE Goto(p, "s_update", loc[p])

\* update_branch_status(branch_name, project_name, status)
update_branch_status(k, status) ==
    IF branches[k] = NoBranch THEN branches
    ELSE [branches EXCEPT ![k].status = status]

\* lines 161-163: update_branch_status(..., 'stopped'); return True
SuspendUpdate(p) ==
    /\ pc[p] = "s_update"
    /\ InCall
    /\ UNCHANGED <<versions, store, containers, now, scan>>
    /\ branches' = update_branch_status(key[p], "stopped")
    /\ Return(p, "ok")

---------------------------------------------------------------------------
(* create_branch(branch_name, project_name, base_s3_path, version_id) *)

\* get_free_port(): random.randint over the range, nothing is consulted
get_free_port == Ports

\* a create that fetches the latest version of the key it is given,
\* whatever version id comes with it
CreateSourceLatest(base, vid) ==
    IF base # <<>> THEN download_from_s3(base) ELSE download_from_s3(BasePath)

\* lines 24-30: the archive create restores from
CreateSource(base, vid) ==
    IF base # <<>>
      THEN IF vid # NoVid THEN download_from_s3_versioned(base, vid)
           ELSE download_from_s3(base)
      ELSE download_from_s3(BasePath)

\* lines 18-30: init_db, get_free_port, the download; an exception leaves
\* create_branch.  o names the command create_branch is called for.
CreateCall(p, o, k, base, vid) ==
    /\ Call(p, o, k)
    /\ UNCHANGED <<branches, versions, store, containers, now, scan>>
    /\ \E port \in get_free_port, f \in CreateSource(base, vid) :
         IF f = NoFile THEN ReturnAtOnce(p, "raised")
         ELSE Goto(p, "c_start",
                   [LocInit EXCEPT !.port = port, !.s3 = S3Path(k),
                                   !.dump = f, !.seen = f,
                                   !.nver = Len(versions)])

\* create_branch(branch_name, project_name, base_s3_path, version_id) as
\* called by the create command
CreateBegin(p, k, base, vid) == CreateCall(p, "create", k, base, vid)

\* line 32: container_id = start_mongo_container(branch_name, dump_path, port)
CreateStart(p) ==
    /\ pc[p] = "c_start"
    /\ InCall
    /\ UNCHANGED <<branches, versions, store, now, scan>>
    /\ \E o \in start_mongo_container(ContainerName(key[p]), loc[p].dump, loc[p].port) :
         /\ containers' = o.containers
         /\ IF o.raised THEN Return(p, "raised")
            ELSE Goto(p, "c_add", [loc[p] EXCEPT !.cid = o.cid])

\* add_branch(branch_name, project_name, port, container_id, s3_path,
\* status): the row of that (project, branch), last_active set to now
add_branch(k, port, cid, path, status) ==
    [branches EXCEPT ![k] = [port |-> port, container_id |-> cid,
                             s3_path |-> path, status |-> status,
                             last_active |-> now]]

\* lines 34-43: add_branch(..., status='running') and the returned dict
CreateAdd(p) ==
    /\ pc[p] = "c_add"
    /\ InCall
    /\ UNCHANGED <<versions, store, containers, now, scan>>
    /\ branches' = add_branch(key[p], loc[p].port, loc[p].cid, loc[p].s3, "running")
    /\ Return(p, "ok")

---------------------------------------------------------------------------
(* delete_branch(branch_name, project_name) *)

\* lines 78-84: get_branch and the early return
DeleteRead(p, k) ==
    /\ Call(p, "delete", k)
    /\ UNCHANGED <<branches, versions, store, containers, now, scan>>
    /\ IF branches[k] = NoBranch THEN ReturnAtOnce(p, "not_found")
       ELSE Goto(p, "d_check",
                 [LocInit EXCEPT !.port = branches[k].port,
                                 !.cid = branches[k].container_id,
                                 !.s3 = branches[k].s3_path,
                                 !.seen = DataOf(k),
                                 !.nver = Len(versions)])

\* lines 86-106: connect to Docker, is the container running
DeleteCheck(p) ==
    /\ pc[p] = "d_check"
    /\ InCall
    /\ UNCHANGED <<branches, versions, store, containers, now, scan>>
    /\ \E r \in container_is_running(loc[p].cid) :
         IF r = "unreachable" THEN Return(p, "raised")
         ELSE IF r = "yes"
           THEN Goto(p, "d_snapshot", loc[p])
           ELSE Goto(p, "d_remove", loc[p])

\* line 108: snapshot_branch_to_s3(...)
DeleteSnapshot(p) ==
    /\ pc[p] = "d_snapshot"
    /\ InCall
    /\ UNCHANGED <<branches, now, scan>>
    /\ \E o \in snapshot_branch_to_s3(key[p], loc[p].cid, loc[p].s3) :
         /\ containers' = o.containers
         /\ store' = o.store
         /\ versions' = o.versions
         /\ IF o.raised THEN Return(p, "raised")
            ELSE Goto(p, "d_stop", loc[p])

\* line 109: stop_mongo_container(container_id)
DeleteStop(p) ==
    /\ pc[p] = "d_stop"
    /\ InCall
    /\ UNCHANGED <<branches, versions, store, now, scan>>
    /\ \E o \in stop_mongo_container(loc[p].cid) :
         /\ containers' = o.containers
         /\ IF o.raised THEN Return(p, "raised")
            ELSE Goto(p, "d_remove", loc[p])

\* remove_branch(branch_name, project_name)
remove_branch(k) == [branches EXCEPT ![k] = NoBranch]

\* a delete that ends by purging every version under the branch's path,
\* what delete_from_s3 of argonctl/core/s3_utils.py would do if called
DeleteRemovePurging(p) ==
    /\ pc[p] = "d_remove"
    /\ InCall
    /\ UNCHANGED <<versions, containers, now, scan>>
    /\ store' = [store EXCEPT ![S3Path(key[p])] = <<>>]
    /\ branches' = remove_branch(key[p])
    /\ Return(p, "ok")

\* lines 113-115: remove_branch(...); return True
DeleteRemove(p) ==
    /\ pc[p] = "d_remove"
    /\ InCall
    /\ UNCHANGED <<versions, store, containers, now, scan>>
    /\ branches' = remove_branch(key[p])
    /\ Return(p, "ok")

---------------------------------------------------------------------------
(* auto_suspend_loop(idle_minutes, check_interval) of the dashboard *)

\* get_all_projects(): the rows of the projects table
ProjectOrder == <<"p1">>

\* get_all_branches(project): the project's rows, in table order
RECURSIVE RowsFrom(_, _)
RowsFrom(project, i) ==
    IF i > Len(KeyOrder) THEN <<>>
    ELSE LET k == KeyOrder[i] IN
         (IF ProjectOf(k) = project /\ branches[k] # NoBranch
            THEN <<[key |-> k, status |-> branches[k].status,
                    last_active |-> branches[k].last_active]>>
            ELSE <<>>) \o RowsFrom(project, i + 1)
get_all_branches(project) == RowsFrom(project, 1)

\* line 53-54: now = datetime.utcnow(); for project in get_all_projects()
ScanBegin ==
    /\ pc[Scanner] = "sc_sleep"
    /\ scan' = [now |-> now, projects |-> ProjectOrder, rows |-> <<>>]
    /\ pc' = [pc EXCEPT ![Scanner] = "sc_project"]
    /\ UNCHANGED <<branches, versions, store, containers, now, op, key, loc,
                   result, prev>>

\* line 55: branches = get_all_branches(project); after the last project,
\* line 71: time.sleep(check_interval)
ScanProject ==
    /\ pc[Scanner] = "sc_project"
    /\ IF scan.projects = <<>>
         THEN /\ pc' = [pc EXCEPT ![Scanner] = "sc_sleep"]
              /\ scan' = [now |-> 0, projects |-> <<>>, rows |-> <<>>]
         ELSE /\ pc' = [pc EXCEPT ![Scanner] = "sc_item"]
              /\ scan' = [scan EXCEPT !.projects = Tail(@),
                            !.rows = get_all_branches(Head(scan.projects))]
    /\ UNCHANGED <<branches, versions, store, containers, now, op, key, loc,
                   result, prev>>

\* lines 57-63: idle > configured_idle_minutes, for a row read as running
IsIdle(row, t) == row.status = "running" /\ t - row.last_active > IdleMinutes

\* a pass that suspends every row read as running, however recently the
\* branch was active
ScanItemAnyRunning ==
    /\ pc[Scanner] = "sc_item"
    /\ IF scan.rows = <<>>
         THEN /\ pc' = [pc EXCEPT ![Scanner] = "sc_project"]
              /\ UNCHANGED <<branches, versions, store, containers, now, op,
                             key, loc, result, prev, scan>>
         ELSE /\ scan' = [scan EXCEPT !.rows = Tail(@)]
              /\ IF Head(scan.rows).status = "running"
                   THEN SuspendRead(Scanner, Head(scan.rows).key)
                   ELSE UNCHANGED <<branches, versions, store, containers, now,
                                    pc, op, key, loc, result, prev>>

\* lines 56-70: the next row of the pass; an idle one is suspended, and an
\* exception of suspend_branch is caught and logged (lines 68-70), which
\* Return already does for the scanner by going on with the loop
ScanItem ==
    /\ pc[Scanner] = "sc_item"
    /\ IF scan.rows = <<>>
         THEN /\ pc' = [pc EXCEPT ![Scanner] = "sc_project"]
              /\ UNCHANGED <<branches, versions, store, containers, now, op,
                             key, loc, result, prev, scan>>
         ELSE /\ scan' = [scan EXCEPT !.rows = Tail(@)]
              /\ IF IsIdle(Head(scan.rows), scan.now)
                   THEN SuspendRead(Scanner, Head(scan.rows).key)
                   ELSE UNCHANGED <<branches, versions, store, containers, now,
                                    pc, op, key, loc, result, prev>>

---------------------------------------------------------------------------
(* time-travel: cli/main.py time_travel and dashboard/app.py time_travel *)

\* get_branch_version_by_time(branch, project, timestamp) over the rows of
\* one database: the most recent row of that (project, branch) created at
\* or before the timestamp, as its index in the table; 0 when there is none
get_branch_version_by_time(rows, k, t) ==
    LET E == {i \in DOMAIN rows : rows[i].key = k /\ rows[i].timestamp <= t}
    IN IF E = {} THEN 0
       ELSE CHOOSE i \in E :
              \A j \in E : \/ rows[j].timestamp < rows[i].timestamp
                           \/ rows[j].timestamp = rows[i].timestamp /\ j <= i

\* the command resolving at the time as far from the end of the clock's
\* range as the requested one is from its start
ResolveCliMirrored(from, t) == get_branch_version_by_time(versions, from, MaxTime - t)

\* cli/main.py line 175: the timestamp option is passed on as it was given
ResolveCli(from, t) == get_branch_version_by_time(versions, from, t)

\* app.py lines 246-252: the form's timestamp is parsed and formatted
\* again with milliseconds precision, strftime('...%f')[:-3] + 'Z'
NormalizeTimestamp(t) == (t \div UsPerMs) * UsPerMs

\* the deployment keeps the branch_versions rows either in the default
\* database or in the project's own one; the other then has none
DbRows(db, scope) == IF db = scope THEN versions ELSE <<>>

\* app.py lines 262-268: the default database first and, when that finds
\* nothing, the project database
ResolveDashboard(from, t, scope) ==
    LET ts == NormalizeTimestamp(t)
        d == get_branch_version_by_time(DbRows("default", scope), from, ts)
    IN IF d # 0 THEN d
       ELSE get_branch_version_by_time(DbRows("project", scope), from, ts)

\* the command going on to create_branch from the base archive when no
\* version is found
TimeTravelCliFromBase(p, new, from, t) ==
    LET v == ResolveCli(from, t) IN
    /\ tt' = [ui |-> "cli", from |-> from, t |-> t, ts |-> t, v |-> v,
              nver |-> Len(versions)]
    /\ IF v = 0
         THEN CreateCall(p, "time_travel", new, <<>>, NoVid)
         ELSE CreateCall(p, "time_travel", new, versions[v].s3_path,
                         versions[v].version_id)

\* cli/main.py lines 171-181: no version: the message and typer.Exit(1);
\* otherwise create_branch(name, project, vinfo['s3_path'],
\* vinfo['version_id'])
TimeTravelCli(p, new, from, t) ==
    LET v == ResolveCli(from, t) IN
    /\ tt' = [ui |-> "cli", from |-> from, t |-> t, ts |-> t, v |-> v,
              nver |-> Len(versions)]
    /\ IF v = 0
         THEN /\ Call(p, "time_travel", new)
              /\ ReturnAtOnce(p, "no_version")
              /\ UNCHANGED <<branches, versions, store, containers, now, scan>>
         ELSE CreateCall(p, "time_travel", new, versions[v].s3_path,
                         versions[v].version_id)

\* app.py lines 225-319: the source branch must have versions (230-236);
\* the timestamp is normalised (242-256) and resolved (258-268); no version
\* is an error redirect (270-285); so is a new branch name that has a row
\* (293-297); otherwise create_branch is called with the version found
TimeTravelDashboard(p, new, from, t) ==
    \E scope \in {"default", "project"} :
      LET v == IF \E i \in DOMAIN versions : versions[i].key = from
                 THEN ResolveDashboard(from, t, scope) ELSE 0
      IN
      /\ tt' = [ui |-> "dashboard", from |-> from, t |-> t,
                ts |-> NormalizeTimestamp(t), v |-> v, nver |-> Len(versions)]
      /\ IF v = 0 \/ branches[new] # NoBranch
           THEN /\ Call(p, "time_travel", new)
                /\ ReturnAtOnce(p, IF v = 0 THEN "no_version" ELSE "exists")
                /\ UNCHANGED <<branches, versions, store, containers, now, scan>>
           ELSE CreateCall(p, "time_travel", new, versions[v].s3_path,
                           versions[v].version_id)

---------------------------------------------------------------------------
(* What happens outside the manager *)

\* a client of a running branch commits data
ClientWrite(c, d) ==
    /\ Live(c)
    /\ containers[c].data # d
    /\ containers' = [containers EXCEPT ![c].data = d]
    /\ UNCHANGED <<branches, versions, store, now, pc, op, key, loc, result,
                   prev, scan>>

\* a running instance exits on its own (crash, host restart); the exited
\* container stays, as the liveness check of suspend and delete expects
ContainerExit(c) ==
    /\ Live(c)
    /\ containers' = [containers EXCEPT ![c].live = FALSE, ![c].data = Empty]
    /\ UNCHANGED <<branches, versions, store, now, pc, op, key, loc, result,
                   prev, scan>>

\* an exited container is removed outside the manager (docker rm, prune):
\* the "Could not get container" case of suspend and delete
ContainerPrune(c) ==
    /\ c \in DOMAIN containers
    /\ ~containers[c].live
    /\ containers' = [x \in DOMAIN containers \ {c} |-> containers[x]]
    /\ UNCHANGED <<branches, versions, store, now, pc, op, key, loc, result,
                   prev, scan>>

\* time passes
Tick ==
    /\ now < MaxTime
    /\ now' = now + 1
    /\ UNCHANGED <<branches, versions, store, containers, pc, op, key, loc,
                   result, prev, scan>>

---------------------------------------------------------------------------
(* The bucket functions called on their own: upload_to_s3 and            *)
(* delete_from_s3 of argonctl/core/s3_utils.py, and the upload made by   *)
(* snapshot_branch_to_s3.  Here the bucket may keep fewer bytes than it  *)
(* was sent, and a key may carry delete markers.                         *)

\* s3.put_object(Key, Body): a new version of the key in a versioned
\* bucket, the key's one unversioned object in another
put_object(objs, content) ==
    IF versioning
      THEN Append(objs, [vid |-> FreshVid, content |-> content])
      ELSE Append(Versioned(objs), [vid |-> NoVid, content |-> content])

\* s3.delete_object(Key) without a version id: a versioned bucket puts a
\* delete marker on the key, another bucket removes the key's object
delete_object(objs) ==
    IF versioning
      THEN Append(objs, [vid |-> FreshVid, content |-> DeleteMarker])
      ELSE <<>>

\* argonctl/core/s3_utils.py upload_to_s3(local_path, s3_path), lines
\* 66-116, for a bucket that can be reached or not and that keeps the
\* bytes `kept` of the file: the version id returned (NoVid for None) and
\* the key's objects afterwards.  A missing or empty file (lines 73-79),
\* a failed connection test or put (80-82, 104-116), a response without
\* VersionId (92-95) and a readback of another size (96-100) return None.
argonctl_upload_to_s3(file, path, reach, kept) ==
    IF file = NoFile \/ ~reach
      THEN [ret |-> NoVid, objs |-> store[path]]
      ELSE LET objs == put_object(store[path], kept)
               vid == objs[Len(objs)].vid
           IN [ret |-> IF vid = NoVid \/ kept # file THEN NoVid ELSE vid,
               objs |-> objs]

\* argonctl/core/s3_utils.py delete_from_s3(s3_path), lines 126-166: the
\* key's objects afterwards.  When list_object_versions answers with
\* 'Versions', these and, inside the same if, the 'DeleteMarkers' are
\* deleted by version id (lines 136-152); otherwise the key is deleted
\* without a version id (lines 153-158).
delete_from_s3(path) ==
    IF SelectSeq(store[path], LAMBDA o : o.content # DeleteMarker) # <<>>
      THEN <<>>
      ELSE delete_object(store[path])

\* what the bucket can keep of an uploaded file
CanKeep(file) == IF file = NoFile THEN {NoFile} ELSE {file, Truncated}

\* upload_to_s3 of argonctl is called for a file
StoreUpload(path, file) ==
    /\ Len(store[path]) < MaxVersions
    /\ \E reach \in BOOLEAN, kept \in CanKeep(file) :
         LET u == argonctl_upload_to_s3(file, path, reach, kept) IN
           /\ store' = [store EXCEPT ![path] = u.objs]
           /\ put' = [fn |-> "upload", path |-> path, file |-> file,
                      reach |-> reach, kept |-> kept, ret |-> u.ret,
                      ok |-> u.ret # NoVid, row |-> FALSE]
    /\ UNCHANGED <<branches, versions, containers, now, pc, op, key, loc,
                   result, prev, scan>>

\* branch_manager.py lines 66-74 for a dump file copied out of the
\* container: when the file exists and is not empty, upload_to_s3 of
\* core/s3_utils.py (put_object, the response's VersionId returned as it
\* is) and add_branch_version with what it returned; put_object raising
\* or add_branch_version raising leaves the function
SnapshotUpload(k, file) ==
    /\ Len(store[S3Path(k)]) < MaxVersions
    /\ Len(versions) < MaxVersions
    /\ \E reach \in BOOLEAN, kept \in CanKeep(file), row \in BOOLEAN :
         LET stored == file # NoFile /\ reach
             objs == put_object(store[S3Path(k)], kept)
             vid == objs[Len(objs)].vid
         IN /\ stored \/ ~row
            /\ store' = IF stored THEN [store EXCEPT ![S3Path(k)] = objs]
                        ELSE store
            /\ versions' = IF row
                             THEN add_branch_version(k, S3Path(k), vid, now)
                             ELSE versions
            /\ put' = [fn |-> "snapshot", path |-> S3Path(k), file |-> file,
                       reach |-> reach, kept |-> kept,
                       ret |-> IF stored THEN vid ELSE NoVid,
                       ok |-> row, row |-> row]
    /\ UNCHANGED <<branches, containers, now, pc, op, key, loc, result,
                   prev, scan>>

\* delete_from_s3 of argonctl is called for a key; a ClientError of the
\* listing or of the deletion returns False (lines 160-166)
StoreDeleteAll(path) ==
    /\ Len(store[path]) <= MaxVersions
    /\ \E reach \in BOOLEAN :
         /\ store' = IF reach THEN [store EXCEPT ![path] = delete_from_s3(path)]
                     ELSE store
         /\ put' = [fn |-> "delete", path |-> path, file |-> NoFile,
                    reach |-> reach, kept |-> NoFile, ret |-> NoVid,
                    ok |-> reach, row |-> FALSE]
    /\ UNCHANGED <<branches, versions, containers, now, pc, op, key, loc,
                   result, prev, scan>>

---------------------------------------------------------------------------
(* Specifications *)

\* a request for a branch of K arrives at worker p
Request(p, K) ==
    /\ Ready(p)
    /\ \E k \in K :
         \/ \E base \in {<<>>} \cup {S3Path(x) : x \in K} :
              \E vid \in {NoVid} \cup
                         (IF base = <<>> THEN {}
                          ELSE {store[base][i].vid : i \in DOMAIN store[base]}) :
                CreateBegin(p, k, base, vid)
         \/ SuspendRead(p, k) /\ UNCHANGED scan
         \/ ResumeRead(p, k)
         \/ DeleteRead(p, k)

\* a suspend_branch in progress takes its next step
SuspendStep(p) ==
    SuspendCheck(p) \/ SuspendSnapshot(p) \/ SuspendStop(p) \/ SuspendUpdate(p)

\* a handler in progress takes its next step
Step(p) ==
    \/ ResumeDownload(p) \/ ResumeStart(p) \/ ResumeUpdate(p)
    \/ SuspendStep(p)
    \/ CreateStart(p) \/ CreateAdd(p)
    \/ DeleteCheck(p) \/ DeleteSnapshot(p) \/ DeleteStop(p) \/ DeleteRemove(p)

Docker ==
    \/ \E c \in CIds : ContainerExit(c)
    \/ \E c \in CIds : ContainerPrune(c)

Clients == \E c \in CIds, d \in Written : ClientWrite(c, d)

Quiet == \A p \in Workers : pc[p] \in {"idle"}

OneKey == {<<"p1", "b1">>}

\* a request is accepted while the specification's count n allows
Counted(n, A) == served < n /\ served' = served + 1 /\ A

\* one branch, one request at a time: a single worker runs each handler to
\* its end before anything else happens
Next ==
    /\ \/ Request("w1", OneKey)
       \/ Step("w1")
       \/ Ack("w1")
       \/ Quiet /\ (Docker \/ Clients)
    /\ UNCHANGED <<served, tt, versioning, put>>

Spec == Init /\ [][Next]_vars

\* two branches of one project, one request at a time
NextTwo ==
    \/ /\ Counted(MaxRequests, Request("w1", ProjectKeys))
       /\ UNCHANGED <<tt, versioning, put>>
    \/ /\ \/ Step("w1")
          \/ Ack("w1")
          \/ Quiet /\ Docker
       /\ UNCHANGED <<served, tt, versioning, put>>

SpecTwo == Init /\ [][NextTwo]_vars

\* a branch of the same name in each of two projects, one request at a
\* time
NextProjects ==
    \/ /\ Counted(MaxRequests, Request("w1", SameName))
       /\ UNCHANGED <<tt, versioning, put>>
    \/ /\ \/ Step("w1")
          \/ Ack("w1")
          \/ Quiet /\ Docker
       /\ UNCHANGED <<served, tt, versioning, put>>

SpecProjects == Init /\ [][NextProjects]_vars

\* requests for one branch served concurrently by two workers
NextConc ==
    \/ /\ Counted(MaxRequests, \E p \in Workers : Request(p, OneKey))
       /\ UNCHANGED <<tt, versioning, put>>
    \/ /\ \/ \E p \in Workers : Step(p)
          \/ \E p \in Workers : Ack(p)
       /\ UNCHANGED <<served, tt, versioning, put>>

SpecConc == Init /\ [][NextConc]_vars

\* the auto-suspend thread running alongside one worker serving requests
\* for one branch
NextScan ==
    \/ /\ Counted(MaxScanRequests, Request("w1", OneKey))
       /\ UNCHANGED <<tt, versioning, put>>
    \/ /\ \/ Step("w1") \/ SuspendStep(Scanner)
          \/ Ack("w1")
          \/ ScanBegin \/ ScanProject \/ ScanItem
          \/ Tick
       /\ UNCHANGED <<served, tt, versioning, put>>

SpecScan == Init /\ [][NextScan]_vars

\* the branches of the time-travel specification: snapshots are taken of
\* Source, and Restored is the name given to the branch made from one
Source == <<"p1", "b1">>
Restored == <<"p1", "b2">>

\* time-travel requests among creates, suspends and resumes of the source
\* branch, one request at a time, while the clock advances between them
NextTT ==
    \/ /\ Quiet
       /\ Counted(MaxTTRequests,
                  \/ CreateBegin("w1", Source, <<>>, NoVid)
                  \/ SuspendRead("w1", Source) /\ UNCHANGED scan
                  \/ ResumeRead("w1", Source))
       /\ UNCHANGED <<tt, versioning, put>>
    \/ /\ Quiet
       /\ Counted(MaxTTRequests,
                  \E t \in Times :
                    \/ TimeTravelCli("w1", Restored, Source, t)
                    \/ TimeTravelDashboard("w1", Restored, Source, t))
       /\ UNCHANGED <<versioning, put>>
    \/ /\ \/ ResumeDownload("w1") \/ ResumeStart("w1") \/ ResumeUpdate("w1")
          \/ SuspendStep("w1")
          \/ CreateStart("w1") \/ CreateAdd("w1")
          \/ Quiet /\ Tick
       /\ UNCHANGED <<served, tt, versioning, put>>
    \/ Ack("w1") /\ tt' = NoTT /\ UNCHANGED <<served, versioning, put>>

SpecTT == Init /\ [][NextTT]_vars

\* the auto-suspend thread on its own: branches are created and suspended
\* and the clock advances while the thread sleeps, no request is served
\* during a pass, and the passes are counted with the requests
Asleep == pc[Scanner] = "sc_sleep"

NextPass ==
    \/ /\ Quiet /\ Asleep
       /\ Counted(MaxPassRequests,
                  \/ \E k \in ProjectKeys :
                       \/ CreateBegin("w1", k, <<>>, NoVid)
                       \/ SuspendRead("w1", k) /\ UNCHANGED scan
                  \/ ScanBegin)
       /\ UNCHANGED <<tt, versioning, put>>
    \/ /\ \/ CreateStart("w1") \/ CreateAdd("w1")
          \/ SuspendStep("w1")
          \/ SuspendStep(Scanner)
          \/ Ack("w1")
          \/ Quiet /\ Asleep /\ Tick
          \/ ScanProject \/ ScanItem
       /\ UNCHANGED <<served, tt, versioning, put>>

SpecPass == Init /\ [][NextPass]_vars

\* the bucket functions called one after another for the key of one
\* branch
NextStore ==
    /\ Counted(MaxStoreRequests,
               \E k \in OneKey :
                 \/ \E f \in Written \cup {NoFile} :
                      \/ StoreUpload(S3Path(k), f)
                      \/ SnapshotUpload(k, f)
                 \/ StoreDeleteAll(S3Path(k)))
    /\ UNCHANGED <<tt, versioning>>

SpecStore == Init /\ [][NextStore]_vars

\* the arguments create_branch is called with, as put remembers them
CreateArgs(base, vid) == [NoPut EXCEPT !.fn = "create", !.path = base, !.ret = vid]

\* creates of one branch from the default base, from its own key and from
\* a version of it, among suspends of the branch and writes of its
\* clients, one request at a time
NextCreate ==
    \/ /\ Quiet
       /\ Counted(MaxCreateRequests,
                  \E base \in {<<>>, S3Path(Source)} :
                    \E vid \in {NoVid} \cup
                               (IF base = <<>> THEN {}
                                ELSE {store[base][i].vid : i \in DOMAIN store[base]}) :
                      /\ CreateBegin("w1", Source, base, vid)
                      /\ put' = CreateArgs(base, vid))
       /\ UNCHANGED <<tt, versioning>>
    \/ /\ Quiet
       /\ Counted(MaxCreateRequests, SuspendRead("w1", Source) /\ UNCHANGED scan)
       /\ UNCHANGED <<tt, versioning, put>>
    \/ /\ \/ CreateStart("w1") \/ CreateAdd("w1")
          \/ SuspendStep("w1")
          \/ Ack("w1")
          \/ Quiet /\ Clients
       /\ UNCHANGED <<served, tt, versioning, put>>

SpecCreate == Init /\ [][NextCreate]_vars

---------------------------------------------------------------------------
(* Properties *)

InResume(p) == op[p] = "resume" /\ pc[p] \in {"r_download", "r_start", "r_update"}
InSuspend(p) ==
    op[p] = "suspend" /\ pc[p] \in {"s_check", "s_snapshot", "s_stop", "s_update"}

\* worker p made this call straight after a call of o for the same branch
\* that succeeded
After(p, o) == prev[p].op = o /\ prev[p].key = key[p] /\ prev[p].result = "ok"

\* the step in which worker p calls handler o
Calls(p, o) ==
    /\ pc[p] \in {"idle", "done"}
    /\ op'[p] = o
    /\ <<pc[p], result[p], prev[p]>> # <<pc'[p], result'[p], prev'[p]>>

LiveNamed(name) ==
    {c \in DOMAIN containers : containers[c].live /\ containers[c].name = name}

\* C1 (P1, idempotent resume): a resume that returns success leaves the
\* branch with status running, and a second resume of the same branch made
\* straight after it returns "already running" at its first statement, so
\* it never gets to download or to start a container, and the branch has
\* at most one running instance.
C1_IdempotentResume ==
    \A p \in Workers :
      /\ (pc[p] = "done" /\ op[p] = "resume" /\ result[p] = "ok")
           => branches[key[p]].status = "running"
      /\ (op[p] = "resume" /\ After(p, "resume"))
           => /\ pc[p] = "done"
              /\ result[p] = "already_running"
              /\ branches[key[p]].status = "running"
              /\ Cardinality(LiveNamed(ContainerName(key[p]))) <= 1

\* C1's case: a second resume has returned "already running" after a
\* first one that succeeded, and the first one's instance is running
C1_Witness ==
    \E p \in Workers :
      /\ pc[p] = "done" /\ op[p] = "resume" /\ After(p, "resume")
      /\ result[p] = "already_running"
      /\ Live(branches[key[p]].container_id)

\* C2: of two resume calls in progress for the same branch, at most one
\* calls start_mongo_container: no worker calls it while another worker's
\* resume of that branch has called it and not yet returned.
C2_SingleProvision ==
    [][\A p, q \in Workers :
         (p # q /\ InResume(q) /\ pc[q] = "r_update" /\ key[q] = key[p]
            /\ op[p] = "resume" /\ pc[p] = "r_start")
         => pc'[p] = "r_start"]_vars

\* C3: a suspend and a resume of the same branch never interleave: the two
\* are never both between their catalog read and their return.
C3_NoSuspendResumeInterleave ==
    \A p, q \in Workers :
      ~(p # q /\ InSuspend(p) /\ InResume(q) /\ key[p] = key[q])

\* C4: when the auto-suspend thread's suspend_branch goes ahead for a
\* branch, the branch's row is still the one the thread judged idle: its
\* last_active is the one read at the start of the pass.
C4_ScannerNotStale ==
    [][(pc[Scanner] = "sc_item" /\ pc'[Scanner] = "s_check")
         => branches[key'[Scanner]].last_active = Head(scan.rows).last_active]_vars

\* C5 (P5): no two rows with status running have the same port.
C5_RunningPortsUnique ==
    \A k1, k2 \in Keys :
      (k1 # k2 /\ branches[k1].status = "running" /\ branches[k2].status = "running")
        => branches[k1].port # branches[k2].port

\* C6 (P4): when delete_branch is over for a branch that had a row, however
\* it ended, the row is gone.
C6_DeleteForwardProgress ==
    \A p \in Workers :
      (pc[p] = "done" /\ op[p] = "delete" /\ result[p] # "not_found")
        => branches[key[p]] = NoBranch

\* C7 (P2): after a suspend of a branch whose instance was running that
\* returned success and a resume straight after it that returned success,
\* the new instance holds the data the old one held when suspend was called.
C7_SuspendResumeLossless ==
    \A p \in Workers :
      (pc[p] = "done" /\ op[p] = "resume" /\ result[p] = "ok"
         /\ After(p, "suspend") /\ prev[p].seen # NoFile)
        => DataOf(key[p]) = prev[p].seen

\* C8: create_branch writes the branch's row only if every step before the
\* write succeeded, the restore of the downloaded archive included: when it
\* has returned its dict, the new instance holds the archive's data.
C8_CreateAllOrNothing ==
    \A p \in Workers :
      (pc[p] = "done" /\ op[p] = "create" /\ result[p] = "ok")
        => DataOf(key[p]) = loc[p].seen

\* C9 (scenario 2): a suspend of a running branch whose instance was
\* running, once it has returned True, has added exactly one row to
\* branch_versions, carrying the version id of the newest object under the
\* branch's path, has stopped the instance and has set status stopped.
C9_SuspendSnapshots ==
    \A p \in Workers :
      (pc[p] = "done" /\ op[p] = "suspend" /\ result[p] = "ok"
         /\ loc[p].seen # NoFile)
        => /\ Len(versions) = loc[p].nver + 1
           /\ Len(store[loc[p].s3]) > 0
           /\ versions[Len(versions)].version_id
                = store[loc[p].s3][Len(store[loc[p].s3])].vid
           /\ ~Live(loc[p].cid)
           /\ branches[key[p]].status = "stopped"

\* C10: a suspend called for a branch that has no row, or whose row says
\* stopped, returns False at once (no Docker or S3 call is reached) and
\* leaves both catalog tables, the bucket and the containers as they were.
C10_SuspendNoop ==
    [][\A p \in Workers :
         (Calls(p, "suspend")
            /\ (branches[key'[p]] = NoBranch \/ branches[key'[p]].status = "stopped"))
         => /\ pc'[p] = "done"
            /\ result'[p] = "not_running"
            /\ UNCHANGED <<branches, versions, store, containers>>]_vars

\* C10's case: suspend has returned False for a branch whose row says
\* stopped
C10_Witness ==
    \E p \in Workers :
      /\ pc[p] = "done" /\ op[p] = "suspend" /\ result[p] = "not_running"
      /\ branches[key[p]].status = "stopped"

\* C11 (scenario 5): a resume called for a branch that has no row returns
\* "Branch not found." at once: nothing is downloaded, no container is
\* started and no row is created or changed.
C11_ResumeNotFound ==
    [][\A p \in Workers :
         (Calls(p, "resume") /\ branches[key'[p]] = NoBranch)
         => /\ pc'[p] = "done"
            /\ result'[p] = "not_found"
            /\ UNCHANGED <<branches, versions, store, containers>>]_vars

\* C11's case: resume has returned "Branch not found." for a branch that
\* has no row
C11_Witness ==
    \E p \in Workers :
      /\ pc[p] = "done" /\ op[p] = "resume" /\ result[p] = "not_found"
      /\ branches[key[p]] = NoBranch

RestoreFailed(p) ==
    /\ pc[p] \in {"c_add", "r_update"}
    /\ loc[p].cid \in DOMAIN containers
    /\ containers[loc[p].cid].data # loc[p].dump

EligibleAt(k, t) ==
    {i \in 1..tt.nver : versions[i].key = k /\ versions[i].timestamp <= t}

\* C15: a time-travel request for time T resolves to the version of the
\* source branch with the greatest creation time at or before T: one
\* created exactly at T is eligible, the version found was not created
\* after T, and no version created later than it and at or before T is in
\* the table; this for the command and for the dashboard.
C15_TimeTravelResolution ==
    tt.ui # "none" =>
      LET E == EligibleAt(tt.from, tt.t) IN
      /\ E # {} => tt.v # 0
      /\ tt.v # 0 =>
           /\ tt.v \in E
           /\ \A i \in E : versions[i].timestamp <= versions[tt.v].timestamp

\* version a was not created after version b (0 is no version found):
\* when a was found, so was b, and b is not older
NotCreatedAfter(a, b) ==
    a # 0 => (b # 0 /\ versions[a].timestamp <= versions[b].timestamp)

\* what the user interface of the last time-travel request resolves for
\* time t
ResolveLike(ui, from, t) ==
    IF ui = "cli" THEN {ResolveCli(from, t)}
    ELSE {ResolveDashboard(from, t, scope) : scope \in {"default", "project"}}

C17_NoVersionNoCreate ==
    [][\A p \in Workers :
         (Calls(p, "time_travel")
            /\ get_branch_version_by_time(versions, tt'.from, tt'.t) = 0)
         => /\ pc'[p] = "done"
            /\ result'[p] = "no_version"
            /\ loc'[p] = LocInit
            /\ UNCHANGED <<branches, versions, store, containers>>]_vars

\* C17's case: the command has reported no version for a time before the
\* source branch's first version
C17_Witness ==
    \E p \in Workers :
      /\ pc[p] = "done" /\ op[p] = "time_travel" /\ result[p] = "no_version"
      /\ tt.ui = "cli" /\ tt.v = 0
      /\ \E i \in DOMAIN versions :
           versions[i].key = tt.from /\ versions[i].timestamp > tt.t

\* C18: every row of branch_versions carries a version id the bucket
\* assigned (not an empty one), and the bucket holds that version under
\* the row's path, in every state create, suspend and resume can reach.
C18_VersionsFetchable ==
    \A i \in DOMAIN versions :
      /\ versions[i].version_id # NoVid
      /\ \E j \in DOMAIN store[versions[i].s3_path] :
           store[versions[i].s3_path][j].vid = versions[i].version_id

\* a step of the delete handler run by p: its call or one of its lines
DeleteStep(p) ==
    /\ op'[p] = "delete"
    /\ \/ Calls(p, "delete")
       \/ pc[p] \in {"d_check", "d_snapshot", "d_stop", "d_remove"}

\* every object version of the sequence before is in the sequence after,
\* under its version id; one that has a version id keeps its bytes as well
\* (the object of a key without versions is the one a put replaces)
KeptVersions(before, after) ==
    \A i \in DOMAIN before :
      \E j \in DOMAIN after :
        /\ after[j].vid = before[i].vid
        /\ before[i].vid # NoVid => after[j].content = before[i].content

C20_NoRawException ==
    \A p \in Workers :
      ~(/\ pc[p] = "done"
        /\ op[p] \in {"create", "suspend", "resume", "delete"}
        /\ result[p] = "raised")

\* the pass takes the next row it read
ScanTakesRow ==
    /\ pc[Scanner] = "sc_item"
    /\ scan.rows # <<>>
    /\ scan'.rows = Tail(scan.rows)

\* the branch of catalog row k is running and has been idle for longer
\* than the threshold
IdleRunning(k) ==
    /\ branches[k] # NoBranch
    /\ branches[k].status = "running"
    /\ now - branches[k].last_active > IdleMinutes

\* a suspend_branch of the auto-suspend thread returns to the loop
ScanSuspendReturns ==
    /\ pc[Scanner] \in {"s_check", "s_snapshot", "s_stop", "s_update"}
    /\ pc'[Scanner] = "sc_item"

WritesCatalog(p) ==
    /\ pc[p] \in {"c_add", "r_update", "s_update", "d_remove"}
    /\ pc'[p] = "done"

\* C22: each handler writes the branch's row as its last step and only once
\* the physical action the row states is a fact: suspend marks the row
\* stopped, and delete removes it, when the instance is not running any
\* more; create and resume record running when the instance runs and holds
\* the archive's data.
C22_WriteAfterAction ==
    [][\A p \in Workers :
         WritesCatalog(p) =>
           /\ pc[p] \in {"s_update", "d_remove"} => ~Live(loc[p].cid)
           /\ pc[p] \in {"c_add", "r_update"} =>
                Live(loc[p].cid) /\ ~RestoreFailed(p)]_vars
\* the liveness check of the suspend or delete p is in answers "not
\* running": the handler goes on to the row's write without a snapshot
TakesGonePath(p) ==
    \/ pc[p] = "s_check" /\ pc'[p] = "s_update"
    \/ pc[p] = "d_check" /\ pc'[p] = "d_remove"

\* C23: suspend and delete skip the snapshot and go on to mark the row
\* stopped, or to remove it, only when the instance is in fact absent or
\* not running; a lookup that failed for another reason does not count as
\* "not running".
C23_UnknownIsNotStopped ==
    [][\A p \in Workers : TakesGonePath(p) => ~Live(loc[p].cid)]_vars
\* no handler is in progress
AtRest == \A p \in Workers : pc[p] \in {"idle", "done"}

\* C24: between operations, whichever of their steps failed, a row with
\* status stopped has no live instance (neither the container its handle
\* names nor one carrying the branch's name runs), and a row with status
\* running has a handle that is not empty.
C24_StatusInvariant ==
    AtRest =>
      \A k \in Keys :
        branches[k] # NoBranch =>
          /\ branches[k].status = "stopped" =>
               /\ ~Live(branches[k].container_id)
               /\ LiveNamed(ContainerName(k)) = {}
          /\ branches[k].status = "running" =>
               branches[k].container_id # NoCid
\* the containers carrying the name of branch k while the catalog has no
\* row for it: what a create that failed in or after its start left behind
Orphans(k) ==
    IF branches[k] # NoBranch THEN {}
    ELSE {c \in DOMAIN containers : containers[c].name = ContainerName(k)}

\* C25: a create of a branch that has an orphaned instance from an earlier
\* failed create stops that instance before it starts a fresh one: once
\* the start step is over, no orphan it found still exists under the
\* branch's name, so the orphan cannot make the retry fail.
C25_RetryReplacesOrphan ==
    [][\A p \in Workers :
         (op[p] = "create" /\ pc[p] = "c_start" /\ pc'[p] # "c_start") =>
           \A c \in Orphans(key[p]) : c \notin DOMAIN containers']_vars
\* C26: the bucket's upload gives a version id only for content that is
\* not empty, that the bucket gave a version id and that the bucket holds
\* at the size sent; and so the snapshot's caller records a version row
\* only for such an upload, never for an empty or a cut archive.
C26_NoVersionForBadContent ==
    /\ (put.fn = "upload" /\ put.ret # NoVid) =>
         /\ put.file # NoFile
         /\ put.kept = put.file
         /\ \E i \in DOMAIN store[put.path] :
              store[put.path][i] = [vid |-> put.ret, content |-> put.file]
    /\ (put.fn = "snapshot" /\ put.row) =>
         /\ put.file # NoFile
         /\ put.kept = put.file

\* C27: delete_from_s3 of a key the bucket can be reached for returns
\* True and leaves neither a version nor a delete marker under the key,
\* whatever the key held before: versions, delete markers, both or
\* nothing; called again on the emptied key it therefore changes nothing.
C27_DeleteAllPurges ==
    [][(served' # served /\ put'.fn = "delete" /\ put'.reach) =>
         /\ put'.ok
         /\ store'[put'.path] = <<>>]_vars
\* the archive a create called with base and vid is to restore from: the
\* version vid of the key base, the latest version of base when there is
\* no vid, the latest of the default base when there is neither
ArchiveOf(base, vid) ==
    LET path == IF base # <<>> THEN base ELSE BasePath
        objs == store[path]
    IN IF base # <<>> /\ vid # NoVid
         THEN {objs[i].content : i \in {j \in DOMAIN objs : objs[j].vid = vid}}
         ELSE IF objs = <<>> THEN {} ELSE {objs[Len(objs)].content}

\* C28: a create that gets past its download holds the archive of the one
\* source its arguments name and nothing else, and the snapshot key it
\* takes and later writes to the branch's row is
\* branches/<project>/<branch>/dump.archive whatever the source was.
C28_CreateSource ==
    [][\A p \in Workers :
         /\ (Calls(p, "create") /\ pc'[p] = "c_start") =>
              /\ loc'[p].dump \in ArchiveOf(put'.path, put'.ret)
              /\ loc'[p].s3 = S3Path(key'[p])
         /\ (op[p] = "create" /\ pc[p] = "c_add" /\ pc'[p] = "done") =>
              /\ branches'[key[p]] # NoBranch
              /\ branches'[key[p]].s3_path = S3Path(key[p])]_vars

\* C28's case: a create given a key and a version id has succeeded, the
\* version is not the key's latest and the two hold different archives
C28_Witness ==
    \E p \in Workers :
      /\ pc[p] = "done" /\ op[p] = "create" /\ result[p] = "ok"
      /\ put.fn = "create" /\ put.path # <<>> /\ put.ret # NoVid
      /\ store[put.path][Len(store[put.path])].vid # put.ret
      /\ store[put.path][Len(store[put.path])].content # loc[p].seen
      /\ branches[key[p]].s3_path = S3Path(key[p])
\* container c is the running instance of a branch of another project
\* than k's
OfOtherProject(c, k) ==
    /\ Live(c)
    /\ \E j \in Keys :
         /\ ProjectOf(j) # ProjectOf(k)
         /\ branches[j] # NoBranch
         /\ branches[j].status = "running"
         /\ branches[j].container_id = c

\* the start of the create or resume p is in gives it a running instance
StartSucceeds(p) ==
    \/ CreateStart(p) /\ pc'[p] = "c_add"
    \/ ResumeStart(p) /\ pc'[p] = "r_update"

\* C29: a create or resume that has its archive can start its instance
\* whether or not a branch of the same name in another project has one
\* running: with its port free and nothing else under its name, the start
\* has an outcome in which the instance runs.
C29_ProjectsIndependent ==
    \A p \in Workers :
      (/\ pc[p] \in {"c_start", "r_start"}
       /\ ~PortInUse(loc[p].port)
       /\ FreeCids # {}
       /\ \A c \in DOMAIN containers :
            containers[c].name = ContainerName(key[p]) =>
              OfOtherProject(c, key[p]))
      => ENABLED StartSucceeds(p)
\* the key holds an archive that a download of its latest version finds
HasArchive(path) == download_from_s3(path) # {NoFile}

\* C30: whenever a row has status stopped, the branch's own snapshot key
\* holds at least one archive version, so that the download resume makes
\* of the latest version of that key finds an object; also for a branch
\* created from the default base or another branch's key and suspended
\* while its instance was gone or its dump produced no file.
C30_StoppedIsResumable ==
    \A k \in Keys :
      (branches[k] # NoBranch /\ branches[k].status = "stopped")
        => HasArchive(branches[k].s3_path)
====
